---- MODULE Spec2Model ----
(***************************************************************************)
(* Model of src/server.py: the /analytics endpoint of the Google Analytics *)
(* backend.  One request is followed from the authentication gate through  *)
(* parameter validation, the date window, the five report queries and      *)
(* their aggregation, to the HTTP response.                                *)
(*                                                                         *)
(* Representation.  Raw field values of the backend ("125", "20240305",    *)
(* "Desktop") are sequences of one-character strings, so that parsing,     *)
(* formatting, ordering and lower-casing are computed, not assumed.        *)
(* Floating-point values are fixed-point integers in thousandths (the      *)
(* enumerated inputs carry at most three fractional digits); values that   *)
(* the code rounds to one decimal are integers in tenths.                  *)
(***************************************************************************)
EXTENDS Integers, Sequences, FiniteSets, TLC

\* ------------------------------------------------------------------ bounds
MaxTrafficRows == 3
MaxPageRows == 11
MaxDeviceRows == 4

\* ------------------------------------------------------- program constants
DaysDefault == 30
DaysMin == 1
DaysMax == 365
TopPagesLimit == 10
SourcesLimit == 8

\* ------------------------------------------------------------- characters
Digits == <<"0", "1", "2", "3", "4", "5", "6", "7", "8", "9">>

IsDigit(c) == \E i \in 1..10 : Digits[i] = c

DigitVal(c) == (CHOOSE i \in 1..10 : Digits[i] = c) - 1

UpperLetters ==
  <<"A", "B", "C", "D", "E", "F", "G", "H", "I", "J", "K", "L",
    "M", "N", "O", "P", "Q", "R", "S", "T", "U", "V", "W", "X", "Y", "Z">>

LowerLetters ==
  <<"a", "b", "c", "d", "e", "f", "g", "h", "i", "j", "k", "l",
    "m", "n", "o", "p", "q", "r", "s", "t", "u", "v", "w", "x", "y", "z">>

\* The characters of the modelled values, in code-point order.
Alphabet ==
  <<" ", "#", "(", ")", "+", "-", ".", "/">> \o Digits \o <<":">>
    \o UpperLetters \o <<"_">> \o LowerLetters

Ord(c) == CHOOSE i \in 1..Len(Alphabet) : Alphabet[i] = c

\* str.__lt__: lexicographic comparison by code point.
RECURSIVE StrLess(_, _)
StrLess(a, b) ==
  IF b = <<>> THEN FALSE
  ELSE IF a = <<>> THEN TRUE
  ELSE IF Head(a) = Head(b) THEN StrLess(Tail(a), Tail(b))
  ELSE Ord(Head(a)) < Ord(Head(b))

LowerChar(c) ==
  IF \E i \in 1..26 : UpperLetters[i] = c
    THEN LowerLetters[CHOOSE i \in 1..26 : UpperLetters[i] = c]
    ELSE c

\* str.lower()
Lower(s) == [i \in 1..Len(s) |-> LowerChar(s[i])]

AllDigits(s) == \A i \in 1..Len(s) : IsDigit(s[i])

\* Value of a (possibly empty) run of decimal digits.
RECURSIVE DigitsVal(_)
DigitsVal(s) ==
  IF s = <<>> THEN 0
  ELSE DigitsVal(SubSeq(s, 1, Len(s) - 1)) * 10 + DigitVal(s[Len(s)])

\* Decimal rendering of a natural number.
RECURSIVE NatToStr(_)
NatToStr(n) ==
  IF n < 10 THEN <<Digits[n + 1]>>
  ELSE NatToStr(n \div 10) \o <<Digits[(n % 10) + 1]>>

\* format(n, "d")
IntToStr(n) == IF n < 0 THEN <<"-">> \o NatToStr(-n) ELSE NatToStr(n)

\* format(n, "02d") for n >= 0
Pad2(n) == IF n < 10 THEN <<"0">> \o NatToStr(n) ELSE NatToStr(n)

\* format(n, "04d") for n >= 0
Pad4(n) ==
  IF n < 10 THEN <<"0", "0", "0">> \o NatToStr(n)
  ELSE IF n < 100 THEN <<"0", "0">> \o NatToStr(n)
  ELSE IF n < 1000 THEN <<"0">> \o NatToStr(n)
  ELSE NatToStr(n)

\* --------------------------------------------------------------- numbers
Scale == 1000

Num(v) == [kind |-> "num", v |-> v]
NaN == [kind |-> "nan", v |-> 0]
Inf == [kind |-> "inf", v |-> 0]
NotFloat == [kind |-> "err", v |-> 0]

\* The digits before and after the decimal point; at least one digit.
Decimal(ip, fp) ==
  IF AllDigits(ip) /\ AllDigits(fp) /\ Len(ip) + Len(fp) > 0
    THEN Num(DigitsVal(ip) * Scale + DigitsVal(SubSeq(fp \o <<"0", "0", "0">>, 1, 3)))
    ELSE NotFloat

\* Unsigned decimal literal: digits with at most one ".".
ParseUnsigned(s) ==
  IF \A i \in 1..Len(s) : s[i] # "." THEN Decimal(s, <<>>)
  ELSE IF Cardinality({i \in 1..Len(s) : s[i] = "."}) > 1 THEN NotFloat
  ELSE Decimal(SubSeq(s, 1, (CHOOSE i \in 1..Len(s) : s[i] = ".") - 1),
               SubSeq(s, (CHOOSE i \in 1..Len(s) : s[i] = ".") + 1, Len(s)))

HasSign(s) == s # <<>> /\ Head(s) \in {"+", "-"}

Unsigned(s) == IF HasSign(s) THEN Tail(s) ELSE s

Negated(neg, u) == IF neg /\ u.kind = "num" THEN Num(-u.v) ELSE u

Literal(body, low) ==
  IF low = <<"n", "a", "n">> THEN NaN
  ELSE IF low = <<"i", "n", "f">> THEN Inf
  ELSE ParseUnsigned(body)

\* The value float(s) denotes: optional sign, then "nan", "inf" or a
\* decimal literal.
ParseFloat(s) ==
  Negated(HasSign(s) /\ Head(s) = "-", Literal(Unsigned(s), Lower(Unsigned(s))))

Ok(v) == [ok |-> TRUE, v |-> v, exc |-> [type |-> "", msg |-> ""]]
Raise(t, m) == [ok |-> FALSE, v |-> 0, exc |-> [type |-> t, msg |-> m]]

FloatOf(f) ==
  IF f.kind = "err"
    THEN Raise("ValueError", "could not convert string to float")
    ELSE Ok(f)

\* float(x): ValueError for a string that is not a number.
Float(s) == FloatOf(ParseFloat(s))

\* The integer part of a finite fixed-point value, toward zero.
Trunc(v) == IF v >= 0 THEN v \div Scale ELSE -((-v) \div Scale)

\* int(f) of the result f of float(x).
IntOf(f) ==
  IF ~f.ok THEN f
  ELSE IF f.v.kind = "nan"
    THEN Raise("ValueError", "cannot convert float NaN to integer")
  ELSE IF f.v.kind = "inf"
    THEN Raise("OverflowError", "cannot convert float infinity to integer")
  ELSE Ok(Trunc(f.v.v))

\* int(float(x))
IntFloat(s) == IntOf(Float(s))

\* The integer nearest to n / d, d > 0; a tie goes to the even neighbour.
RoundDiv(n, d) ==
  IF 2 * (n % d) < d THEN n \div d
  ELSE IF 2 * (n % d) > d THEN (n \div d) + 1
  ELSE IF (n \div d) % 2 = 0 THEN n \div d
  ELSE (n \div d) + 1

\* round(f * 100, 1) of the result f of float(x), in tenths; NaN and
\* infinity pass through.
Percent(f) ==
  IF ~f.ok THEN f
  ELSE IF f.v.kind = "num" THEN Ok(Num(RoundDiv(f.v.v * 100 * 10, Scale)))
  ELSE Ok(f.v)

\* round(float(x) * 100, 1)
Rate(s) == Percent(Float(s))

\* ---------------------------------------------------------------- calendar
IsLeap(y) == y % 4 = 0 /\ (y % 100 # 0 \/ y % 400 = 0)

DaysInMonth(y, m) ==
  IF m = 2 THEN (IF IsLeap(y) THEN 29 ELSE 28)
  ELSE IF m \in {4, 6, 9, 11} THEN 30 ELSE 31

RECURSIVE DaysBeforeMonth(_, _)
DaysBeforeMonth(y, m) ==
  IF m = 1 THEN 0 ELSE DaysBeforeMonth(y, m - 1) + DaysInMonth(y, m - 1)

DaysBeforeYear(y) ==
  (y - 1) * 365 + (y - 1) \div 4 - (y - 1) \div 100 + (y - 1) \div 400

\* date.toordinal(): 0001-01-01 is day 1.
ToOrdinal(d) == DaysBeforeYear(d[1]) + DaysBeforeMonth(d[1], d[2]) + d[3]

DaysIn400Years == DaysBeforeYear(401)
DaysIn100Years == DaysBeforeYear(101)
DaysIn4Years == DaysBeforeYear(5)

MonthOfDay(year, n) ==
  CHOOSE k \in 1..12 :
    /\ DaysBeforeMonth(year, k) <= n
    /\ n < DaysBeforeMonth(year, k) + DaysInMonth(year, k)

\* The date of the n-th day (from 0) of a year.
DateInYear(year, n) ==
  <<year, MonthOfDay(year, n), n - DaysBeforeMonth(year, MonthOfDay(year, n)) + 1>>

\* The date n days (from 0) into a four-year cycle that starts with year.
DateInCycle(year, n) ==
  IF n \div 365 = 4 THEN <<year + 3, 12, 31>>
  ELSE DateInYear(year + n \div 365, n % 365)

\* The date n days (from 0) into a 400-year cycle that starts with year.
DateInEra(year, n) ==
  IF n \div DaysIn100Years = 4 THEN <<year + 399, 12, 31>>
  ELSE DateInCycle(
         year + (n \div DaysIn100Years) * 100
              + ((n % DaysIn100Years) \div DaysIn4Years) * 4,
         (n % DaysIn100Years) % DaysIn4Years)

\* date.fromordinal(n), by the 400/100/4/1-year cycles of the proleptic
\* Gregorian calendar.
FromOrdinal(n) ==
  DateInEra(((n - 1) \div DaysIn400Years) * 400 + 1, (n - 1) % DaysIn400Years)

\* today - timedelta(days = k)
MinusDays(d, k) == FromOrdinal(ToOrdinal(d) - k)

\* date.strftime("%Y-%m-%d")
IsoDate(d) == Pad4(d[1]) \o <<"-">> \o Pad2(d[2]) \o <<"-">> \o Pad2(d[3])

MonthAbbr ==
  <<<<"J", "a", "n">>, <<"F", "e", "b">>, <<"M", "a", "r">>, <<"A", "p", "r">>, <<"M", "a", "y">>, <<"J", "u", "n">>,
    <<"J", "u", "l">>, <<"A", "u", "g">>, <<"S", "e", "p">>, <<"O", "c", "t">>, <<"N", "o", "v">>, <<"D", "e", "c">>>>

\* ------------------------------------------------------------- formatters
\* f"{mins}:{secs:02d}", or "0:00" when int(float(seconds)) raised.
MinSec(n) ==
  IF n.ok THEN IntToStr(n.v \div 60) \o <<":">> \o Pad2(n.v % 60)
  ELSE <<"0", ":", "0", "0">>

\* format_duration(seconds)
format_duration(seconds) == MinSec(IntFloat(seconds))

\* The %m directive: 1[0-2] | 0[1-9] | [1-9].
MonthField(s) ==
  \/ Len(s) = 2 /\ s[1] = "1" /\ s[2] \in {"0", "1", "2"}
  \/ Len(s) = 2 /\ s[1] = "0" /\ IsDigit(s[2]) /\ s[2] # "0"
  \/ Len(s) = 1 /\ IsDigit(s[1]) /\ s[1] # "0"

\* The %d directive: 3[01] | [12]\d | 0[1-9] | [1-9] | " "[1-9].
DayField(s) ==
  \/ Len(s) = 2 /\ s[1] = "3" /\ s[2] \in {"0", "1"}
  \/ Len(s) = 2 /\ s[1] \in {"1", "2"} /\ IsDigit(s[2])
  \/ Len(s) = 2 /\ s[1] \in {"0", " "} /\ IsDigit(s[2]) /\ s[2] # "0"
  \/ Len(s) = 1 /\ IsDigit(s[1]) /\ s[1] # "0"

FieldVal(s) == IF Head(s) = " " THEN DigitsVal(Tail(s)) ELSE DigitsVal(s)

\* The month takes k characters and the day all the others.
Fits(rest, k) ==
  /\ Len(rest) > k
  /\ MonthField(SubSeq(rest, 1, k))
  /\ DayField(SubSeq(rest, k + 1, Len(rest)))

\* datetime(y, m, d)
MakeDate(y, m, d) ==
  IF y < 1 THEN Raise("ValueError", "year is out of range")
  ELSE IF d > DaysInMonth(y, m)
    THEN Raise("ValueError", "day is out of range for month")
  ELSE Ok(<<y, m, d>>)

SplitDate(year, rest, k) ==
  MakeDate(DigitsVal(year), FieldVal(SubSeq(rest, 1, k)),
           FieldVal(SubSeq(rest, k + 1, Len(rest))))

\* The month and day fields after the year: the two-character month is
\* tried first, and nothing may remain after the day.
MatchDate(year, rest) ==
  IF Fits(rest, 2) THEN SplitDate(year, rest, 2)
  ELSE IF Fits(rest, 1) THEN SplitDate(year, rest, 1)
  ELSE Raise("ValueError", "time data does not match format")

\* datetime.strptime(s, "%Y%m%d")
Strptime(s) ==
  IF Len(s) < 4 \/ ~AllDigits(SubSeq(s, 1, 4))
    THEN Raise("ValueError", "time data does not match format")
    ELSE MatchDate(SubSeq(s, 1, 4), SubSeq(s, 5, Len(s)))

\* date_obj.strftime("%b %d"), or the input when strptime raised.
DateLabel(parsed, date_str) ==
  IF parsed.ok THEN MonthAbbr[parsed.v[2]] \o <<" ">> \o Pad2(parsed.v[3])
  ELSE date_str

\* format_date_label(date_str)
format_date_label(date_str) == DateLabel(Strptime(date_str), date_str)

\* ---------------------------------------------------------- report fetcher
EmptyDict == [k \in {} |-> <<>>]

\* enumerate(values) written into a dict under headers[i]: a later column
\* of the same name overwrites an earlier one.
Columns(headers, values) ==
  [k \in {headers[i] : i \in 1..Len(values)} |->
     values[CHOOSE i \in 1..Len(values) :
              /\ headers[i] = k
              /\ \A j \in (i + 1)..Len(values) : headers[j] # k]]

\* One row of get_ga4_data: dimension columns first (only when dimensions
\* were requested), then metric columns.
Item(response, row, dimensions) ==
  Columns(response.metric_headers, row.metric_values)
    @@ (IF dimensions # <<>>
          THEN Columns(response.dimension_headers, row.dimension_values)
          ELSE EmptyDict)

\* A row with more values than the response has headers makes the header
\* lookup raise IndexError.
RowFits(response, row, dimensions) ==
  /\ Len(row.metric_values) <= Len(response.metric_headers)
  /\ dimensions # <<>> =>
       Len(row.dimension_values) <= Len(response.dimension_headers)

\* get_ga4_data(client, start_date, end_date, metrics, dimensions), given
\* what client.run_report answered.
get_ga4_data(outcome, dimensions) ==
  IF ~outcome.ok THEN Raise(outcome.exc.type, outcome.exc.msg)
  ELSE IF \E i \in 1..Len(outcome.v.rows) :
            ~RowFits(outcome.v, outcome.v.rows[i], dimensions)
    THEN Raise("IndexError", "list index out of range")
  ELSE Ok([i \in 1..Len(outcome.v.rows) |->
             Item(outcome.v, outcome.v.rows[i], dimensions)])

\* dict.get(key, default)
Get(item, key, default) == IF key \in DOMAIN item THEN item[key] ELSE default

Zero == <<"0">>

\* The first result of a sequence of results that raised, or Ok(v).
FirstRaise(results, v) ==
  IF \E i \in 1..Len(results) : ~results[i].ok
    THEN results[CHOOSE i \in 1..Len(results) :
                   ~results[i].ok /\ \A j \in 1..(i - 1) : results[j].ok]
    ELSE Ok(v)

\* xs[:n]
Prefix(xs, n) == SubSeq(xs, 1, IF Len(xs) < n THEN Len(xs) ELSE n)

\* The fetched list without the slice.
Unsliced(rows, n) == rows

\* The slice xs[:n] of a fetched list.
Sliced(rows, n) == IF rows.ok THEN Ok(Prefix(rows.v, n)) ELSE rows

Max(a, b) == IF a >= b THEN a ELSE b

\* ----------------------------------------------------------- aggregation
\* The rate reported as 0 when there are no sessions, the quotient otherwise.
ConversionRateZeroGuard(conversions, sessions) ==
  IF sessions <= 0 THEN 0 ELSE RoundDiv(conversions * 100 * 10, sessions)

\* round(conversions / max(sessions, 1) * 100, 1), in tenths.
ConversionRate(conversions, sessions) ==
  RoundDiv(conversions * 100 * 10, Max(sessions, 1 * Scale))

\* The conversions of the overview row, in the order the source makes them.
OverviewFields(data) ==
  [total_sessions |-> Float(Get(data, "sessions", Zero)),
   totalUsers |-> IntFloat(Get(data, "totalUsers", Zero)),
   newUsers |-> IntFloat(Get(data, "newUsers", Zero)),
   sessions |-> IntFloat(Get(data, "sessions", Zero)),
   engagedSessions |-> IntFloat(Get(data, "engagedSessions", Zero)),
   pageViews |-> IntFloat(Get(data, "screenPageViews", Zero)),
   avgSessionDuration |->
     format_duration(Get(data, "averageSessionDuration", Zero)),
   bounceRate |-> Rate(Get(data, "bounceRate", Zero)),
   engagementRate |-> Rate(Get(data, "engagementRate", Zero)),
   conversions |-> IntFloat(Get(data, "conversions", Zero)),
   conv |-> Float(Get(data, "conversions", Zero))]

\* The overview dict of the converted fields f.
OverviewDict(f, days, start_date, end_date) ==
  FirstRaise(
    <<f.total_sessions, f.totalUsers, f.newUsers, f.sessions,
      f.engagedSessions, f.pageViews, f.bounceRate, f.engagementRate,
      f.conversions>>,
    [periodDays |-> days,
     startDate |-> start_date,
     endDate |-> end_date,
     totalUsers |-> f.totalUsers.v,
     newUsers |-> f.newUsers.v,
     sessions |-> f.sessions.v,
     engagedSessions |-> f.engagedSessions.v,
     pageViews |-> f.pageViews.v,
     avgSessionDuration |-> f.avgSessionDuration,
     bounceRate |-> f.bounceRate.v,
     engagementRate |-> f.engagementRate.v,
     conversions |-> f.conversions.v,
     conversionRate |-> ConversionRate(f.conv.v.v, f.total_sessions.v.v)])

\* overview: empty when the report has no row, else built from its first row.
Overview(overview_raw, days, start_date, end_date) ==
  IF Len(overview_raw) = 0 THEN Ok(EmptyDict)
  ELSE OverviewDict(OverviewFields(overview_raw[1]), days, start_date, end_date)

\* The sort key x.get("date", "")
DateKey(row) == Get(row, "date", <<>>)

\* An insertion that also moves past rows of the same date.
RECURSIVE InsertBeforeEqual(_, _)
InsertBeforeEqual(sorted, row) ==
  IF sorted = <<>> THEN <<row>>
  ELSE IF ~StrLess(DateKey(sorted[Len(sorted)]), DateKey(row))
    THEN InsertBeforeEqual(SubSeq(sorted, 1, Len(sorted) - 1), row)
           \o <<sorted[Len(sorted)]>>
    ELSE sorted \o <<row>>

\* sorted(rows, key = ...): stable, ascending.
RECURSIVE InsertByDate(_, _)
InsertByDate(sorted, row) ==
  IF sorted = <<>> THEN <<row>>
  ELSE IF StrLess(DateKey(row), DateKey(sorted[Len(sorted)]))
    THEN InsertByDate(SubSeq(sorted, 1, Len(sorted) - 1), row)
           \o <<sorted[Len(sorted)]>>
    ELSE sorted \o <<row>>

RECURSIVE SortedByDate(_)
SortedByDate(rows) ==
  IF rows = <<>> THEN <<>>
  ELSE InsertByDate(SortedByDate(SubSeq(rows, 1, Len(rows) - 1)), rows[Len(rows)])

\* The conversions of one daily row, in source order.
TrafficFields(row) ==
  [label |-> format_date_label(Get(row, "date", <<>>)),
   activeUsers |-> IntFloat(Get(row, "activeUsers", Zero)),
   sessions |-> IntFloat(Get(row, "sessions", Zero)),
   pageViews |-> IntFloat(Get(row, "screenPageViews", Zero)),
   engagedSessions |-> IntFloat(Get(row, "engagedSessions", Zero))]

\* The first conversion of the loop that raised, row by row.
TrafficRaise(f) ==
  [i \in 1..Len(f) |->
     FirstRaise(<<f[i].activeUsers, f[i].sessions, f[i].pageViews,
                  f[i].engagedSessions>>, 0)]

\* The five parallel lists after the loop over the converted rows f.
TrafficSeries(f) ==
  FirstRaise(TrafficRaise(f),
    [labels |-> [i \in 1..Len(f) |-> f[i].label],
     activeUsers |-> [i \in 1..Len(f) |-> f[i].activeUsers.v],
     sessions |-> [i \in 1..Len(f) |-> f[i].sessions.v],
     pageViews |-> [i \in 1..Len(f) |-> f[i].pageViews.v],
     engagedSessions |-> [i \in 1..Len(f) |-> f[i].engagedSessions.v]])

EachTraffic(rows) == [i \in 1..Len(rows) |-> TrafficFields(rows[i])]

\* traffic_over_time: the rows sorted by date, then appended one by one.
TrafficOverTime(traffic_raw) == TrafficSeries(EachTraffic(SortedByDate(traffic_raw)))

NotSet == <<"(", "n", "o", "t", " ", "s", "e", "t", ")">>

\* The conversions of one page row, in source order.
PageFields(item) ==
  [page |-> Get(item, "pagePath", NotSet),
   views |-> IntFloat(Get(item, "screenPageViews", Zero)),
   avgTime |-> format_duration(Get(item, "averageSessionDuration", Zero)),
   bounceRate |-> Rate(Get(item, "bounceRate", Zero)),
   engagedSessions |-> IntFloat(Get(item, "engagedSessions", Zero))]

PageRaise(f) ==
  [i \in 1..Len(f) |->
     FirstRaise(<<f[i].views, f[i].bounceRate, f[i].engagedSessions>>, 0)]

\* The top_pages comprehension over the converted rows f.
PageList(f) ==
  FirstRaise(PageRaise(f),
    [i \in 1..Len(f) |->
       [page |-> f[i].page,
        views |-> f[i].views.v,
        avgTime |-> f[i].avgTime,
        bounceRate |-> f[i].bounceRate.v,
        engagedSessions |-> f[i].engagedSessions.v]])

EachPage(rows) == [i \in 1..Len(rows) |-> PageFields(rows[i])]

TopPages(top_pages_raw) == PageList(EachPage(top_pages_raw))

Other == <<"o", "t", "h", "e", "r">>
Desktop == <<"d", "e", "s", "k", "t", "o", "p">>
Mobile == <<"m", "o", "b", "i", "l", "e">>
Tablet == <<"t", "a", "b", "l", "e", "t">>

RECURSIVE SumSeq(_)
SumSeq(xs) == IF xs = <<>> THEN 0 ELSE xs[1] + SumSeq(Tail(xs))

\* The conversions of one device row.
DeviceFields(item) ==
  [cat |-> Lower(Get(item, "deviceCategory", Other)),
   users |-> IntFloat(Get(item, "activeUsers", Zero))]

\* device_map[cat] after the loop: the users of the rows of category cat.
DeviceBucket(f, cat) ==
  SumSeq([i \in 1..Len(f) |-> IF f[i].cat = cat THEN f[i].users.v ELSE 0])

\* total_device_users incremented only inside the "if cat in device_map".
DeviceTotalClassified(f) ==
  SumSeq([i \in 1..Len(f) |->
            IF f[i].cat \in {Desktop, Mobile, Tablet} THEN f[i].users.v ELSE 0])

\* total_device_users after the loop.
DeviceTotal(f) == SumSeq([i \in 1..Len(f) |-> f[i].users.v])

\* round(bucket / max(total, 1) * 100, 1), in tenths.
DevicePercent(bucket, total) == RoundDiv(bucket * 100 * 10, Max(total, 1))

\* The device_category dict after the loop over the converted rows f.
DeviceDict(f) ==
  FirstRaise([i \in 1..Len(f) |-> f[i].users],
    [labels |-> <<"Desktop", "Mobile", "Tablet">>,
     data |-> <<DevicePercent(DeviceBucket(f, Desktop), DeviceTotal(f)),
                DevicePercent(DeviceBucket(f, Mobile), DeviceTotal(f)),
                DevicePercent(DeviceBucket(f, Tablet), DeviceTotal(f))>>,
     colors |-> <<"#3b82f6", "#10b981", "#8b5cf6">>])

EachDevice(rows) == [i \in 1..Len(rows) |-> DeviceFields(rows[i])]

DeviceCategory(devices_raw) == DeviceDict(EachDevice(devices_raw))

OtherChannel == <<"(", "o", "t", "h", "e", "r", ")">>

\* The conversions of one channel row, in source order.
SourceFields(item) ==
  [label |-> Get(item, "sessionDefaultChannelGroup", OtherChannel),
   sessions |-> IntFloat(Get(item, "sessions", Zero)),
   users |-> IntFloat(Get(item, "activeUsers", Zero))]

SourceRaise(f) ==
  [i \in 1..Len(f) |-> FirstRaise(<<f[i].sessions, f[i].users>>, 0)]

\* The three parallel lists after the loop over the converted rows f.
SourceSeries(f) ==
  FirstRaise(SourceRaise(f),
    [labels |-> [i \in 1..Len(f) |-> f[i].label],
     sessions |-> [i \in 1..Len(f) |-> f[i].sessions.v],
     users |-> [i \in 1..Len(f) |-> f[i].users.v]])

EachSource(rows) == [i \in 1..Len(rows) |-> SourceFields(rows[i])]

TrafficSources(sources_raw) == SourceSeries(EachSource(sources_raw))

\* ------------------------------------------------------- request handling
\* The int conversion of the days query parameter: an optional sign and
\* decimal digits.
ParseInt(s) ==
  IF Unsigned(s) # <<>> /\ AllDigits(Unsigned(s))
    THEN Ok(IF HasSign(s) /\ Head(s) = "-"
              THEN -DigitsVal(Unsigned(s)) ELSE DigitsVal(Unsigned(s)))
    ELSE Raise("int_parsing", "Input should be a valid integer")

\* The ge / le constraints of the parameter on the parsed value n.
InRange(n) ==
  IF ~n.ok THEN n
  ELSE IF n.v < DaysMin
    THEN Raise("greater_than_equal", "Input should be greater than or equal to 1")
  ELSE IF n.v > DaysMax
    THEN Raise("less_than_equal", "Input should be less than or equal to 365")
  ELSE n

\* days: int = Query(30, ge=1, le=365)
DaysParam(query) ==
  IF ~query.present THEN Ok(DaysDefault) ELSE InRange(ParseInt(query.text))

\* secrets.compare_digest on the two ASCII strings
compare_digest(a, b) == a = b

\* verify_admin with "or" in place of "and": one correct credential suffices.
verify_admin_either(credentials, admin_username, admin_password) ==
  IF ~(compare_digest(credentials.username, admin_username)
         \/ compare_digest(credentials.password, admin_password))
    THEN [ok |-> FALSE, v |-> "",
          exc |-> [type |-> "HTTPException", msg |-> "Invalid credentials"]]
    ELSE Ok(credentials.username)

\* verify_admin(credentials)
verify_admin(credentials, admin_username, admin_password) ==
  LET is_username_correct == compare_digest(credentials.username, admin_username)
      is_password_correct == compare_digest(credentials.password, admin_password)
  IN IF ~(is_username_correct /\ is_password_correct)
       THEN [ok |-> FALSE, v |-> "",
             exc |-> [type |-> "HTTPException", msg |-> "Invalid credentials"]]
       ELSE Ok(credentials.username)

\* The two except clauses of get_analytics.
HandlerError(exc) ==
  IF exc.type = "ValueError"
    THEN [status |-> 400, body |-> [detail |-> <<"Invalid days value: ", exc.msg>>]]
    ELSE [status |-> 500, body |-> [detail |-> <<"Analytics error: ", exc.msg>>]]

\* ---------------------------------------------------------- configuration
ADMIN_USERNAME == "admin"
ADMIN_PASSWORD == "s3cret"

OverviewMetrics ==
  <<"totalUsers", "newUsers", "sessions", "engagedSessions", "screenPageViews",
    "averageSessionDuration", "bounceRate", "engagementRate", "conversions">>
TrafficMetrics == <<"activeUsers", "sessions", "screenPageViews", "engagedSessions">>
TrafficDimensions == <<"date">>
PageMetrics ==
  <<"screenPageViews", "averageSessionDuration", "bounceRate", "engagedSessions">>
PageDimensions == <<"pagePath">>
DeviceMetrics == <<"activeUsers">>
DeviceDimensions == <<"deviceCategory">>
SourceMetrics == <<"sessions", "activeUsers">>
SourceDimensions == <<"sessionDefaultChannelGroup">>

\* ------------------------------------------------------------------ state
VARIABLES
  request,            \* credentials and the raw days query parameter
  clock,              \* the server's calendar date, and how often it advanced
  pc,                 \* position of the request
  admin,              \* what verify_admin returned
  days,               \* the validated days parameter
  today,              \* the date the handler read from the clock
  start_date,         \* the date window, as passed to the backend
  end_date,
  queries,            \* the reports requested from the backend, in order
  answers,            \* what the backend answered to each of them
  overview_raw, traffic_raw, top_pages_raw, devices_raw, sources_raw,
  overview, traffic_over_time, top_pages, device_category, traffic_sources,
  response            \* the HTTP response; status 0 while there is none

fetched == <<overview_raw, traffic_raw, top_pages_raw, devices_raw, sources_raw>>
built == <<overview, traffic_over_time, top_pages, device_category, traffic_sources>>
window == <<days, today, start_date, end_date>>
log == <<queries, answers>>
vars == <<request, clock, pc, admin, window, log, fetched, built, response>>

NoResponse == [status |-> 0, body |-> EmptyDict]

RunReport(report, metrics, dimensions) ==
  [report |-> report, start_date |-> start_date, end_date |-> end_date,
   metrics |-> metrics, dimensions |-> dimensions]

\* -------------------------------------------------------------- actions
\* The calendar date changes while the request is in progress.
Tick(maxTicks) ==
  /\ pc # "done"
  /\ clock.ticks < maxTicks
  /\ clock' = [date |-> FromOrdinal(ToOrdinal(clock.date) + 1),
               ticks |-> clock.ticks + 1]
  /\ UNCHANGED <<request, pc, admin, window, log, fetched, built, response>>

\* The credentials dependency: HTTPBasic raises when the request carries no
\* credentials, verify_admin when they are wrong.
Authenticated(req) ==
  IF req.authorization
    THEN verify_admin(req.credentials, ADMIN_USERNAME, ADMIN_PASSWORD)
    ELSE Raise("HTTPException", "Not authenticated")

VerifyAdmin ==
  /\ pc = "auth"
  /\ IF Authenticated(request).ok
       THEN /\ admin' = Authenticated(request).v
            /\ pc' = "validate"
            /\ UNCHANGED response
       ELSE /\ response' = [status |-> 401,
                            body |-> [detail |-> <<Authenticated(request).exc.msg>>]]
            /\ pc' = "done"
            /\ UNCHANGED admin
  /\ UNCHANGED <<request, clock, window, log, fetched, built>>

\* Validation of the days query parameter by the framework, before the
\* handler body runs: a request validation error is answered with 422.
ValidateDays ==
  /\ pc = "validate"
  /\ IF DaysParam(request.days).ok
       THEN /\ days' = DaysParam(request.days).v
            /\ pc' = "handler"
            /\ UNCHANGED response
       ELSE /\ response' = [status |-> 422,
                            body |-> [detail |-> <<DaysParam(request.days).exc.type,
                                                   DaysParam(request.days).exc.msg>>]]
            /\ pc' = "done"
            /\ UNCHANGED days
  /\ UNCHANGED <<request, clock, admin, today, start_date, end_date, log,
                 fetched, built>>

\* today - timedelta(days = days): a window of days + 1 days.
start_date_obj_exclusive(date, n) == MinusDays(date, n)

\* today - timedelta(days = days - 1): the window includes today.
start_date_obj(date, n) == MinusDays(date, n - 1)

\* Entry of the try block: the client is constructed and the date window is
\* computed from today's date.
StartHandler(clients) ==
  /\ pc = "handler"
  /\ \E client \in clients :
       IF client.ok
         THEN /\ today' = clock.date
              /\ start_date' = IsoDate(start_date_obj(clock.date, days))
              /\ end_date' = IsoDate(clock.date)
              /\ pc' = "overview"
              /\ UNCHANGED response
         ELSE /\ response' = HandlerError(client.exc)
              /\ pc' = "done"
              /\ UNCHANGED <<today, start_date, end_date>>
  /\ UNCHANGED <<request, clock, admin, days, log, fetched, built>>

\* The value a local holds after a statement that may have raised.
Kept(result, old) == IF result.ok THEN result.v ELSE old

\* A stage that logs its exception and lets the handler go on.
SettleSwallow(result, next) == pc' = next /\ UNCHANGED response

\* A stage of the try block ends: control moves on, or the exception is
\* caught by one of the two except clauses.
Settle(result, next) ==
  IF result.ok
    THEN pc' = next /\ UNCHANGED response
    ELSE response' = HandlerError(result.exc) /\ pc' = "done"

OverviewBuilt(rows, d, s, e) == IF rows.ok THEN Overview(rows.v, d, s, e) ELSE rows

QueryOverview(outcomes) ==
  /\ pc = "overview"
  /\ \E outcome \in outcomes :
       LET rows == get_ga4_data(outcome, <<>>)
       IN /\ answers' = Append(answers, outcome)
          /\ overview_raw' = Kept(rows, overview_raw)
          /\ overview' = Kept(OverviewBuilt(rows, days, start_date, end_date), overview)
          /\ Settle(OverviewBuilt(rows, days, start_date, end_date), "traffic")
  /\ queries' = Append(queries, RunReport("overview", OverviewMetrics, <<>>))
  /\ UNCHANGED <<request, clock, admin, window, traffic_raw, top_pages_raw,
                 devices_raw, sources_raw, traffic_over_time, top_pages,
                 device_category, traffic_sources>>

TrafficBuilt(rows) == IF rows.ok THEN TrafficOverTime(rows.v) ELSE rows

QueryTraffic(outcomes) ==
  /\ pc = "traffic"
  /\ \E outcome \in outcomes :
       LET rows == get_ga4_data(outcome, TrafficDimensions)
       IN /\ answers' = Append(answers, outcome)
          /\ traffic_raw' = Kept(rows, traffic_raw)
          /\ traffic_over_time' = Kept(TrafficBuilt(rows), traffic_over_time)
          /\ Settle(TrafficBuilt(rows), "pages")
  /\ queries' = Append(queries,
                       RunReport("traffic", TrafficMetrics, TrafficDimensions))
  /\ UNCHANGED <<request, clock, admin, window, overview_raw, top_pages_raw,
                 devices_raw, sources_raw, overview, top_pages,
                 device_category, traffic_sources>>

PagesBuilt(rows) == IF rows.ok THEN TopPages(rows.v) ELSE rows

QueryPages(outcomes) ==
  /\ pc = "pages"
  /\ \E outcome \in outcomes :
       LET rows == Sliced(get_ga4_data(outcome, PageDimensions), TopPagesLimit)
       IN /\ answers' = Append(answers, outcome)
          /\ top_pages_raw' = Kept(rows, top_pages_raw)
          /\ top_pages' = Kept(PagesBuilt(rows), top_pages)
          /\ Settle(PagesBuilt(rows), "devices")
  /\ queries' = Append(queries, RunReport("pages", PageMetrics, PageDimensions))
  /\ UNCHANGED <<request, clock, admin, window, overview_raw, traffic_raw,
                 devices_raw, sources_raw, overview, traffic_over_time,
                 device_category, traffic_sources>>

DevicesBuilt(rows) == IF rows.ok THEN DeviceCategory(rows.v) ELSE rows

QueryDevices(outcomes) ==
  /\ pc = "devices"
  /\ \E outcome \in outcomes :
       LET rows == get_ga4_data(outcome, DeviceDimensions)
       IN /\ answers' = Append(answers, outcome)
          /\ devices_raw' = Kept(rows, devices_raw)
          /\ device_category' = Kept(DevicesBuilt(rows), device_category)
          /\ Settle(DevicesBuilt(rows), "sources")
  /\ queries' = Append(queries,
                       RunReport("devices", DeviceMetrics, DeviceDimensions))
  /\ UNCHANGED <<request, clock, admin, window, overview_raw, traffic_raw,
                 top_pages_raw, sources_raw, overview, traffic_over_time,
                 top_pages, traffic_sources>>

SourcesBuilt(rows) == IF rows.ok THEN TrafficSources(rows.v) ELSE rows

QuerySources(outcomes) ==
  /\ pc = "sources"
  /\ \E outcome \in outcomes :
       LET rows == Sliced(get_ga4_data(outcome, SourceDimensions), SourcesLimit)
       IN /\ answers' = Append(answers, outcome)
          /\ sources_raw' = Kept(rows, sources_raw)
          /\ traffic_sources' = Kept(SourcesBuilt(rows), traffic_sources)
          /\ Settle(SourcesBuilt(rows), "respond")
  /\ queries' = Append(queries,
                       RunReport("sources", SourceMetrics, SourceDimensions))
  /\ UNCHANGED <<request, clock, admin, window, overview_raw, traffic_raw,
                 top_pages_raw, devices_raw, overview, traffic_over_time,
                 top_pages, device_category>>

\* The final return of get_analytics.
Respond ==
  /\ pc = "respond"
  /\ response' =
       [status |-> 200,
        body |-> [status |-> "success",
                  days |-> days,
                  startDate |-> start_date,
                  endDate |-> end_date,
                  data |-> [overview |-> overview,
                            trafficOverTime |-> traffic_over_time,
                            topPages |-> top_pages,
                            deviceCategory |-> device_category,
                            trafficSources |-> traffic_sources],
                  timestamp |-> IsoDate(clock.date)]]
  /\ pc' = "done"
  /\ UNCHANGED <<request, clock, admin, window, log, fetched, built>>

\* ----------------------------------------------------------------- inputs
MaxTicks == 1

Report(dimension_headers, metric_headers, rows) ==
  Ok([dimension_headers |-> dimension_headers,
      metric_headers |-> metric_headers,
      rows |-> rows])

Row(dimension_values, metric_values) ==
  [dimension_values |-> dimension_values, metric_values |-> metric_values]

\* client.run_report raised instead of answering.
Failed(type, msg) ==
  [ok |-> FALSE,
   v |-> [dimension_headers |-> <<>>, metric_headers |-> <<>>, rows |-> <<>>],
   exc |-> [type |-> type, msg |-> msg]]

Unavailable == Failed("ServiceUnavailable", "503 failed to connect to all addresses")

\* BetaAnalyticsDataClient() returns, or raises for want of credentials.
Clients ==
  {Ok(0), Raise("DefaultCredentialsError", "default credentials were not found")}

Credentials ==
  [username : {ADMIN_USERNAME, "guest"}, password : {ADMIN_PASSWORD, "letmein"}]

Absent == [present |-> FALSE, text |-> <<>>]
Given(text) == [present |-> TRUE, text |-> text]

DaysQueries ==
  {Absent, Given(<<"1">>), Given(<<"2">>), Given(<<"3", "6", "5">>), Given(<<"0">>), Given(<<"3", "6", "6">>),
   Given(<<"-", "1">>), Given(<<"1", ".", "5">>), Given(<<"a", "b", "c">>), Given(<<>>)}

Requests ==
  [authorization : {TRUE}, credentials : Credentials, days : DaysQueries]
    \cup [authorization : {FALSE},
          credentials : {[username |-> "", password |-> ""]},
          days : {Absent}]

StartDates == {<<2024, 3, 1>>, <<2024, 12, 31>>}

OverviewRow(sessions, conversions, duration) ==
  Row(<<>>, <<<<"1", "2", "0", "0">>, <<"3", "0", "0">>, sessions, <<"1", "5", "0">>, <<"4", "0", "0", "0">>, duration,
              <<"0", ".", "4", "5", "6">>, <<"0", ".", "5", "4", "4">>, conversions>>)

OverviewSmall ==
  {Report(<<>>, OverviewMetrics, <<OverviewRow(<<"2", "0", "0">>, <<"5">>, <<"1", "2", "5", ".", "7">>)>>),
   Report(<<>>, OverviewMetrics, <<>>),
   Report(<<>>, OverviewMetrics, <<OverviewRow(<<"a", "b", "c">>, <<"5">>, <<"1", "2", "5", ".", "7">>)>>),
   Unavailable}

SessionChoices == {<<"0">>, <<"0", ".", "5">>, <<"1">>, <<"3">>, <<"7">>, <<"1", "6">>, <<"2", "0", "0">>}
ConversionChoices == {<<"0">>, <<"1">>, <<"2", ".", "5">>, <<"5">>}
DurationChoices == {<<"1", "2", "5">>, <<"5", "9", ".", "9">>, <<>>, <<"a", "b", "c">>, <<"i", "n", "f">>}

OverviewWide ==
  {Report(<<>>, OverviewMetrics, <<OverviewRow(s, c, <<"1", "2", "5">>)>>) :
     s \in SessionChoices, c \in ConversionChoices}
    \cup {Report(<<>>, OverviewMetrics, <<>>)}

OverviewDurations ==
  {Report(<<>>, OverviewMetrics, <<OverviewRow(<<"2", "0", "0">>, <<"5">>, d)>>) : d \in DurationChoices}
    \cup {Report(<<>>, OverviewMetrics, <<Row(<<>>, <<<<"1", "2", "0", "0">>, <<"3", "0", "0">>, <<"2", "0", "0">>>>)>>)}

\* The i-th daily row of a report: its metric values identify the row.
TrafficRow(date, i) ==
  Row(IF date.present THEN <<date.text>> ELSE <<>>,
      <<NatToStr(10 + i), NatToStr(20 + i), NatToStr(30 + i), NatToStr(5 + i)>>)

TrafficSmall ==
  {Report(TrafficDimensions, TrafficMetrics, <<TrafficRow(Given(<<"2", "0", "2", "4", "0", "3", "0", "2">>), 1),
                   TrafficRow(Given(<<"2", "0", "2", "4", "0", "3", "0", "1">>), 2)>>),
   Report(TrafficDimensions, TrafficMetrics, <<Row(<<<<"2", "0", "2", "4", "0", "3", "0", "1">>>>, <<<<"n", "a", "n">>, <<"1">>, <<"1">>, <<"1">>>>)>>),
   Unavailable}

DateChoices ==
  {Given(<<"2", "0", "2", "4", "0", "3", "0", "1">>), Given(<<"2", "0", "2", "4", "0", "2", "2", "9">>), Given(<<"2", "0", "2", "4", "0", "3", "5">>),
   Given(<<"n", "o", "t", "a", "d", "a", "t", "e">>), Given(<<>>), Absent}

TrafficWide ==
  {Report(TrafficDimensions, TrafficMetrics, [i \in 1..Len(dates) |-> TrafficRow(dates[i], i)]) :
     dates \in UNION {[1..n -> DateChoices] : n \in 0..MaxTrafficRows}}

PagePath(i) == <<"/", "p">> \o NatToStr(i)

PageDurations == <<<<"1", "2", "5">>, <<>>, <<"a", "b", "c">>, <<"5", "9", ".", "9">>>>

\* The i-th page row of variant v: the views are not in descending order.
PageRow(i, v) ==
  Row(<<PagePath(i)>>,
      <<NatToStr((i * 7 * v) % 10), PageDurations[((i + v) % 4) + 1],
        <<"0", ".", "2", "5">>, NatToStr(i)>>)

PagesSmall ==
  {Report(PageDimensions, PageMetrics, <<PageRow(1, 1), PageRow(2, 1)>>),
   Report(PageDimensions, PageMetrics, <<Row(<<<<"/", "h", "o", "m", "e">>>>, <<<<"i", "n", "f">>, <<"1">>, <<"0", ".", "5">>, <<"1">>>>)>>),
   Unavailable}

PagesWide ==
  {Report(PageDimensions, PageMetrics, [i \in 1..n |-> PageRow(i, v)]) :
     n \in 0..MaxPageRows, v \in 1..3}

DevicesSmall ==
  {Report(DeviceDimensions, DeviceMetrics, <<Row(<<<<"d", "e", "s", "k", "t", "o", "p">>>>, <<<<"4", "0">>>>), Row(<<<<"s", "m", "a", "r", "t", "t", "v">>>>, <<<<"1", "0">>>>)>>),
   Report(DeviceDimensions, DeviceMetrics, <<Row(<<<<"d", "e", "s", "k", "t", "o", "p">>, <<"e", "x", "t", "r", "a">>>>, <<<<"4", "0">>>>)>>),
   Unavailable}

DeviceRowChoices ==
  {Row(<<<<"d", "e", "s", "k", "t", "o", "p">>>>, <<<<"4", "0">>>>), Row(<<<<"M", "o", "b", "i", "l", "e">>>>, <<<<"4", "0">>>>),
   Row(<<<<"T", "A", "B", "L", "E", "T">>>>, <<<<"1", "0">>>>), Row(<<<<"s", "m", "a", "r", "t", "t", "v">>>>, <<<<"1", "0">>>>),
   Row(<<>>, <<<<"5", ".", "9">>>>)}

DevicesWide ==
  {Report(DeviceDimensions, DeviceMetrics, rows) :
     rows \in UNION {[1..n -> DeviceRowChoices] : n \in 0..MaxDeviceRows}}

SourcesSmall ==
  {Report(SourceDimensions, SourceMetrics, <<Row(<<<<"D", "i", "r", "e", "c", "t">>>>, <<<<"1", "2", "0">>, <<"9", "0">>>>),
                  Row(<<<<"R", "e", "f", "e", "r", "r", "a", "l">>>>, <<<<"3", "0">>, <<"2", "5">>>>)>>),
   Report(SourceDimensions, SourceMetrics, <<Row(<<<<"D", "i", "r", "e", "c", "t">>>>, <<<<"1", "2", "0">>, <<"n", "/", "a">>>>)>>),
   Unavailable}

\* One well-formed report per query, for the specifications that vary the
\* answer to a single report and hold the others fixed.
Healthy ==
  [overview |-> Report(<<>>, OverviewMetrics, <<OverviewRow(<<"2", "0", "0">>, <<"5">>, <<"1", "2", "5", ".", "7">>)>>),
   traffic |-> Report(TrafficDimensions, TrafficMetrics,
                      <<TrafficRow(Given(<<"2", "0", "2", "4", "0", "3", "0", "2">>), 1), TrafficRow(Given(<<"2", "0", "2", "4", "0", "3", "0", "1">>), 2)>>),
   pages |-> Report(PageDimensions, PageMetrics, <<PageRow(1, 1), PageRow(2, 1)>>),
   devices |-> Report(DeviceDimensions, DeviceMetrics,
                      <<Row(<<<<"d", "e", "s", "k", "t", "o", "p">>>>, <<<<"4", "0">>>>), Row(<<<<"s", "m", "a", "r", "t", "t", "v">>>>, <<<<"1", "0">>>>)>>),
   sources |-> Report(SourceDimensions, SourceMetrics,
                      <<Row(<<<<"D", "i", "r", "e", "c", "t">>>>, <<<<"1", "2", "0">>, <<"9", "0">>>>), Row(<<<<"R", "e", "f", "e", "r", "r", "a", "l">>>>, <<<<"3", "0">>, <<"2", "5">>>>)>>)]

\* ---------------------------------------------------------- specifications
Init ==
  /\ request \in Requests
  /\ clock \in [date : StartDates, ticks : {0}]
  /\ pc = "auth"
  /\ admin = ""
  /\ days = 0
  /\ today = <<>>
  /\ start_date = <<>>
  /\ end_date = <<>>
  /\ queries = <<>>
  /\ answers = <<>>
  /\ overview_raw = <<>>
  /\ traffic_raw = <<>>
  /\ top_pages_raw = <<>>
  /\ devices_raw = <<>>
  /\ sources_raw = <<>>
  /\ overview = EmptyDict
  /\ traffic_over_time = EmptyDict
  /\ top_pages = <<>>
  /\ device_category = EmptyDict
  /\ traffic_sources = EmptyDict
  /\ response = NoResponse

Next ==
  \/ Tick(MaxTicks)
  \/ VerifyAdmin
  \/ ValidateDays
  \/ StartHandler(Clients)
  \/ QueryOverview(OverviewSmall)
  \/ QueryTraffic(TrafficSmall)
  \/ QueryPages(PagesSmall)
  \/ QueryDevices(DevicesSmall)
  \/ QuerySources(SourcesSmall)
  \/ Respond

Spec == Init /\ [][Next]_vars

\* One well-formed request, for the specifications that vary what the
\* backend answers to one of the reports. The aggregation of a report does
\* not read the clock, which stands still in these specifications.
InitOne ==
  /\ Init
  /\ request = [authorization |-> TRUE,
                credentials |-> [username |-> ADMIN_USERNAME,
                                 password |-> ADMIN_PASSWORD],
                days |-> Absent]
  /\ clock.date = <<2024, 3, 1>>

NextOverview ==
  \/ VerifyAdmin
  \/ ValidateDays
  \/ StartHandler(Clients)
  \/ QueryOverview(OverviewWide)
  \/ QueryTraffic(TrafficSmall)
  \/ QueryPages(PagesSmall)
  \/ QueryDevices(DevicesSmall)
  \/ QuerySources(SourcesSmall)
  \/ Respond

SpecOverview == InitOne /\ [][NextOverview]_vars

NextTraffic ==
  \/ VerifyAdmin
  \/ ValidateDays
  \/ StartHandler(Clients)
  \/ QueryOverview(OverviewDurations)
  \/ QueryTraffic(TrafficWide)
  \/ QueryPages({Healthy.pages})
  \/ QueryDevices({Healthy.devices})
  \/ QuerySources({Healthy.sources})
  \/ Respond

SpecTraffic == InitOne /\ [][NextTraffic]_vars

NextPages ==
  \/ VerifyAdmin
  \/ ValidateDays
  \/ StartHandler(Clients)
  \/ QueryOverview(OverviewSmall)
  \/ QueryTraffic(TrafficSmall)
  \/ QueryPages(PagesWide)
  \/ QueryDevices(DevicesSmall)
  \/ QuerySources(SourcesSmall)
  \/ Respond

SpecPages == InitOne /\ [][NextPages]_vars

NextDevices ==
  \/ VerifyAdmin
  \/ ValidateDays
  \/ StartHandler(Clients)
  \/ QueryOverview({Healthy.overview})
  \/ QueryTraffic({Healthy.traffic})
  \/ QueryPages({Healthy.pages})
  \/ QueryDevices(DevicesWide)
  \/ QuerySources({Healthy.sources})
  \/ Respond

SpecDevices == InitOne /\ [][NextDevices]_vars

\* ------------------------------------------------------------- properties
Stages == <<"overview", "traffic", "pages", "devices", "sources">>

Succeeded == pc = "done" /\ response.status = 200

\* The handler body was entered: the request passed the gate and validation.
Entered == admin # "" /\ days # 0 /\ pc # "handler"

CredentialsCorrect ==
  /\ request.authorization
  /\ request.credentials.username = ADMIN_USERNAME
  /\ request.credentials.password = ADMIN_PASSWORD

\* The k-th stage of the pipeline was left without an exception.
StageDone(k) == Len(answers) > k \/ (Len(answers) = k /\ pc = IF k < 5 THEN Stages[k + 1] ELSE "respond") \/ (Len(answers) = k /\ k = 5 /\ Succeeded)

\* p tenths is a nearest tenth of num / den * 100.
NearestTenth(p, num, den) ==
  IF p * den >= num * 1000
    THEN 2 * (p * den - num * 1000) <= den
    ELSE 2 * (num * 1000 - p * den) <= den

\* C1: for an authenticated request with a valid days value, every exception
\* raised while querying the backend or aggregating its rows ends the request
\* with HTTP 500 and detail "Analytics error: <message>", and no response
\* carrying a data field is produced.
C1_BackendFailureIs500 ==
  (Entered /\ pc = "done" /\ queries # <<>> /\ response.status # 200) =>
    /\ response.status = 500
    /\ response.body.detail[1] = "Analytics error: "
    /\ "data" \notin DOMAIN response.body

\* The days parameter is present and is not an integer of [1, 365].
DaysOutside(query) ==
  /\ query.present
  /\ ~(ParseInt(query.text).ok /\ ParseInt(query.text).v \in 1..365)

\* C2: every request with correct credentials whose days parameter is outside
\* [1, 365] or not an integer is answered with HTTP 400, and no backend query
\* is issued.
C2_BadDaysIs400 ==
  (CredentialsCorrect /\ DaysOutside(request.days) /\ pc = "done") =>
    /\ response.status = 400
    /\ queries = <<>>

\* C3: a request gets past the authentication gate only when the supplied
\* username and the supplied password both equal the configured ones; with a
\* wrong username, a wrong password or both, the request ends with HTTP 401,
\* detail "Invalid credentials", and no backend query is issued.
C3_AuthGate ==
  /\ (pc \notin {"auth", "done"} \/ admin # "" \/ queries # <<>>) => CredentialsCorrect
  /\ (request.authorization /\ ~CredentialsCorrect /\ pc # "auth") =>
       /\ pc = "done"
       /\ response.status = 401
       /\ response.body.detail = <<"Invalid credentials">>
       /\ queries = <<>>

C3_Witness ==
  /\ pc = "done"
  /\ response.status = 401
  /\ request.credentials.username = ADMIN_USERNAME
  /\ request.credentials.password # ADMIN_PASSWORD

\* The date a "YYYY-MM-DD" string denotes.
ParseIso(s) ==
  <<DigitsVal(SubSeq(s, 1, 4)), DigitsVal(SubSeq(s, 6, 7)), DigitsVal(SubSeq(s, 9, 10))>>

IsIso(s) ==
  /\ Len(s) = 10
  /\ s[5] = "-" /\ s[8] = "-"
  /\ AllDigits(SubSeq(s, 1, 4)) /\ AllDigits(SubSeq(s, 6, 7)) /\ AllDigits(SubSeq(s, 9, 10))

\* The calendar day after d.
NextDay(d) ==
  IF d[3] < DaysInMonth(d[1], d[2]) THEN <<d[1], d[2], d[3] + 1>>
  ELSE IF d[2] < 12 THEN <<d[1], d[2] + 1, 1>>
  ELSE <<d[1] + 1, 1, 1>>

\* The date k days after d, a month at a time.
RECURSIVE DaysAfter(_, _)
DaysAfter(d, k) ==
  IF k = 0 THEN d
  ELSE IF d[3] + k <= DaysInMonth(d[1], d[2]) THEN <<d[1], d[2], d[3] + k>>
  ELSE DaysAfter(NextDay(<<d[1], d[2], DaysInMonth(d[1], d[2])>>),
                 k - (DaysInMonth(d[1], d[2]) - d[3]) - 1)

DeviceUsers(row) == Trunc(ParseFloat(Get(row, "activeUsers", Zero)).v)

\* The row's category is cat, whatever the case of its letters.
InCategory(row, cat) ==
  "deviceCategory" \in DOMAIN row /\ Lower(row.deviceCategory) = cat

Classified(row) ==
  InCategory(row, Desktop) \/ InCategory(row, Mobile) \/ InCategory(row, Tablet)

BucketOf(rows, cat) ==
  SumSeq([i \in 1..Len(rows) |->
            IF InCategory(rows[i], cat) THEN DeviceUsers(rows[i]) ELSE 0])

TotalOf(rows) == SumSeq([i \in 1..Len(rows) |-> DeviceUsers(rows[i])])

\* data are the percentages of the rows, undiluted those of the classified
\* rows alone.
DeviceClaim(data, undiluted, buckets, total) ==
  /\ \A k \in 1..3 : NearestTenth(data[k], buckets[k], Max(total, 1))
  /\ buckets[1] + buckets[2] + buckets[3] <= total
  /\ \A k \in 1..3 : data[k] <= undiluted[k]
  /\ (buckets = <<40, 40, 10>> /\ total = 100) => data = <<400, 400, 100>>

\* C5: every device row adds its users to the total, and to a bucket only when
\* its category is desktop, mobile or tablet in any case; each percentage is
\* bucket / max(total, 1) * 100 rounded to one decimal, the buckets sum to at
\* most the total, unclassified users never increase a percentage, and
\* 40, 40, 10 with 10 unclassified gives 40.0, 40.0, 10.0.
C5_Devices ==
  StageDone(4) =>
    DeviceClaim(device_category.data,
                DeviceCategory(SelectSeq(devices_raw, Classified)).v.data,
                <<BucketOf(devices_raw, Desktop), BucketOf(devices_raw, Mobile),
                  BucketOf(devices_raw, Tablet)>>,
                TotalOf(devices_raw))

C5_Witness ==
  /\ StageDone(4)
  /\ Len(devices_raw) = 4
  /\ \E i \in 1..4 : ~Classified(devices_raw[i])
  /\ \E i \in 1..4 : "deviceCategory" \in DOMAIN devices_raw[i]
                       /\ devices_raw[i].deviceCategory = <<"T", "A", "B", "L", "E", "T">>
  /\ device_category.data = <<400, 400, 100>>

RateClaim(rate, conversions, sessions) ==
  /\ NearestTenth(rate, conversions, Max(sessions, 1000))
  /\ sessions = 0 => rate = (conversions * 100 * 10) \div 1000

\* C6: conversionRate is conversions / max(sessions, 1) * 100 rounded to one
\* decimal for all non-negative sessions and conversions; the overview is
\* built without a division error, and with no sessions the denominator is 1
\* (sessions 0, conversions 5 gives 500.0).
C6_ConversionRate ==
  (Len(answers) >= 1 /\ answers[1].ok /\ answers[1].v.rows # <<>>) =>
    /\ StageDone(1)
    /\ overview # EmptyDict
    /\ RateClaim(overview.conversionRate,
                 ParseFloat(answers[1].v.rows[1].metric_values[9]).v,
                 ParseFloat(answers[1].v.rows[1].metric_values[3]).v)

C6_Witness ==
  /\ StageDone(1)
  /\ overview # EmptyDict
  /\ overview.sessions = 0
  /\ overview.conversions = 5
  /\ overview.conversionRate = 5000

PageClaim(rows, pages) ==
  /\ Len(pages) = (IF Len(rows) < 10 THEN Len(rows) ELSE 10)
  /\ \A i \in 1..Len(pages) :
       /\ pages[i].page = rows[i].dimension_values[1]
       /\ pages[i].views = Trunc(ParseFloat(rows[i].metric_values[1]).v)
       /\ pages[i].avgTime = format_duration(rows[i].metric_values[2])
       /\ pages[i].engagedSessions = Trunc(ParseFloat(rows[i].metric_values[4]).v)

\* C7: for n page rows of the backend, topPages has min(n, 10) entries and
\* entry i is derived from the i-th backend row: the backend order is kept,
\* and no row is dropped from the prefix or duplicated.
C7_TopPages ==
  (StageDone(3) /\ answers[3].v.dimension_headers = PageDimensions) =>
    PageClaim(answers[3].v.rows, top_pages)

C7_Witness ==
  /\ Succeeded
  /\ Len(answers[3].v.rows) = 11
  /\ Len(response.body.data.topPages) = 10
  /\ response.body.data.topPages[10].page = <<"/", "p", "1", "0">>

\* An eight-digit date of the calendar.
ValidYMD(s) ==
  /\ Len(s) = 8
  /\ AllDigits(s)
  /\ DigitsVal(SubSeq(s, 1, 4)) >= 1
  /\ DigitsVal(SubSeq(s, 5, 6)) \in 1..12
  /\ DigitsVal(SubSeq(s, 7, 8)) >= 1
  /\ DigitsVal(SubSeq(s, 7, 8))
       <= DaysInMonth(DigitsVal(SubSeq(s, 1, 4)), DigitsVal(SubSeq(s, 5, 6)))

LabelClaim(rows, labels) ==
  \A i \in 1..Len(rows) : ~ValidYMD(DateKey(rows[i])) => labels[i] = DateKey(rows[i])

DurationClaim(raw, text) == ParseFloat(raw).kind # "num" => text = <<"0", ":", "0", "0">>

\* C8: a malformed or empty duration or date value never aborts the request:
\* the duration of a value that is not a number of seconds is "0:00", the label
\* of a value that is not a valid YYYYMMDD date is the value itself, and the
\* stage goes on to the success response.
C8_LenientFormatting ==
  /\ (Len(answers) >= 1 /\ answers[1].ok /\ answers[1].v.rows # <<>>) =>
       /\ StageDone(1)
       /\ DurationClaim(Get(overview_raw[1], "averageSessionDuration", Zero),
                        overview.avgSessionDuration)
  /\ (Len(answers) >= 2 /\ answers[2].ok) =>
       /\ StageDone(2)
       /\ LabelClaim(SortedByDate(traffic_raw), traffic_over_time.labels)

\* The outcome of the k-th stage, recomputed from what the backend answered.
StageResult(k) ==
  CASE k = 1 -> OverviewBuilt(get_ga4_data(answers[1], <<>>), days, start_date, end_date)
    [] k = 2 -> TrafficBuilt(get_ga4_data(answers[2], TrafficDimensions))
    [] k = 3 -> PagesBuilt(Sliced(get_ga4_data(answers[3], PageDimensions), TopPagesLimit))
    [] k = 4 -> DevicesBuilt(get_ga4_data(answers[4], DeviceDimensions))
    [] k = 5 -> SourcesBuilt(Sliced(get_ga4_data(answers[5], SourceDimensions), SourcesLimit))

\* C9: the five queries are issued in the order overview, traffic over time,
\* top pages, devices, sources, each at most once; when the k-th query or its
\* aggregation fails no later query is issued and the request ends in an error
\* response; a success response follows exactly five answered queries.
C9_Pipeline ==
  /\ Len(queries) <= 5
  /\ Len(answers) = Len(queries)
  /\ \A k \in 1..Len(queries) : queries[k].report = Stages[k]
  /\ \A k \in 1..Len(queries) :
       (~answers[k].ok \/ ~StageResult(k).ok) =>
         /\ k = Len(queries)
         /\ pc = "done"
         /\ response.status \in {400, 500}
         /\ "data" \notin DOMAIN response.body
  /\ Succeeded =>
       /\ Len(queries) = 5
       /\ \A k \in 1..5 : answers[k].ok

C9_Witness ==
  /\ pc = "done"
  /\ Len(queries) = 3
  /\ answers[3].ok
  /\ ~StageResult(3).ok
  /\ response.status = 500

\* The raw date of a backend row; the empty string when it has none.
RawDate(row) ==
  IF row.dimension_values = <<>> THEN <<>> ELSE row.dimension_values[1]

Metric(row, k) == Trunc(ParseFloat(row.metric_values[k]).v)

\* p orders the rows as the series list them.
SeriesOrder(rows, series, p) ==
  /\ \A i, j \in 1..Len(rows) : i # j => p[i] # p[j]
  /\ \A i \in 1..Len(rows) :
       /\ series.activeUsers[i] = Metric(rows[p[i]], 1)
       /\ series.sessions[i] = Metric(rows[p[i]], 2)
       /\ series.pageViews[i] = Metric(rows[p[i]], 3)
       /\ series.engagedSessions[i] = Metric(rows[p[i]], 4)
       /\ series.labels[i] = format_date_label(RawDate(rows[p[i]]))
  /\ \A i, j \in 1..Len(rows) :
       i < j =>
         /\ ~StrLess(RawDate(rows[p[j]]), RawDate(rows[p[i]]))
         /\ RawDate(rows[p[i]]) = RawDate(rows[p[j]]) => p[i] < p[j]

SeriesClaim(rows, series) ==
  /\ Len(series.labels) = Len(rows)
  /\ Len(series.activeUsers) = Len(rows)
  /\ Len(series.sessions) = Len(rows)
  /\ Len(series.pageViews) = Len(rows)
  /\ Len(series.engagedSessions) = Len(rows)
  /\ \E p \in [1..Len(rows) -> 1..Len(rows)] : SeriesOrder(rows, series, p)

\* C10: for daily rows in any order, the five trafficOverTime series have one
\* entry per row, index i of every series comes from the same row, and the
\* rows are in ascending order of their raw date string, a missing date as the
\* empty string and equal dates in backend order.
C10_TrafficSeries ==
  (StageDone(2) /\ answers[2].v.dimension_headers = TrafficDimensions) =>
    SeriesClaim(answers[2].v.rows, traffic_over_time)

C10_Witness ==
  /\ Succeeded
  /\ Len(answers[2].v.rows) = 3
  /\ RawDate(answers[2].v.rows[1]) = <<"2", "0", "2", "4", "0", "3", "0", "1">>
  /\ answers[2].v.rows[2].dimension_values = <<>>
  /\ RawDate(answers[2].v.rows[3]) = <<>>
  /\ response.body.data.trafficOverTime.activeUsers = <<12, 13, 11>>
====
